---- MODULE Spec2Model ----
(***************************************************************************)
(* Pair discovery of the pairs-trading bot: DataManager (price store),     *)
(* StatisticalAnalyzer (alignment, cointegration test, spread statistics)  *)
(* and PairsFinder.find_pairs (the i < j scan with per-pair try/except).   *)
(*                                                                         *)
(* Numbers.  Prices and hedge ratios are integers.  A p-value is a point   *)
(* of the grid 0..PGrid, PGrid standing for 1.0, or NaN.  A float that may *)
(* be NaN is a cell: <<v>> for the number v, <<>> for NaN.  A series is a  *)
(* function from its index (a set of timestamps) to cells.                 *)
(*                                                                         *)
(* statsmodels (coint, OLS, adfuller) is outside the repository.  It is a  *)
(* deterministic function of its inputs that the model cannot compute, so  *)
(* the model draws it at Init from a family of NLib functions: variable    *)
(* lib.  Every outcome (an exception at each stage, every pair of          *)
(* p-values) is the outcome of every input under some member.              *)
(***************************************************************************)
EXTENDS Integers, Sequences, FiniteSets, TLC

VARIABLES
    data,                 \* DataManager.data: symbol -> stored Close series
    fetched,              \* the fetch_stock_data call that has just returned
    finder,               \* the PairsFinder: its two thresholds, or NoFinder
    lib,                  \* which member of the statsmodels family is linked
    progress_every,       \* the K of the "Progress:" line of the find_pairs
                          \* that runs: pairs_finder.py's or main.py's
    pc,                   \* "idle", "scan", "done", "raised" (find_pairs); "tc"
                          \* when test_cointegration is called directly;
                          \* "fetched" when fetch_stock_data has returned
    symbols,              \* find_pairs: the argument
    i, j,                 \* find_pairs: the next values of the two loops
    total_combinations,   \* find_pairs: local
    current_combination,  \* find_pairs: local
    valid_pairs,          \* find_pairs: local, the value returned
    progress,             \* find_pairs: the "Progress:" lines printed, each
                          \* as <<current_combination, total_combinations>>
    entry,                \* history: the manager's data, the thresholds and
                          \* the argument as they were when find_pairs began
    previous,             \* history: the list the call before returned, when
                          \* the caller repeats a call
    trace,                \* history: the pairs visited, and how each ended
    last,                 \* history: the try block's last run, in full
    price1, price2,       \* a direct call of test_cointegration: arguments
    min_observations,     \* the caller's minimum (streamlit number_input)
    aligned,              \* history of a direct call: aligned_data, as its
                          \* index and its two columns, in row order
    result                \* a direct call of test_cointegration: its outcome

vars == <<data, fetched, finder, lib, progress_every, pc, symbols, i, j, total_combinations,
          current_combination, valid_pairs, progress, entry, previous,
          trace, last, price1, price2, min_observations, aligned, result>>

scanVars == <<symbols, i, j, total_combinations, current_combination,
              valid_pairs, progress, entry, previous, trace, last>>

tcVars == <<price1, price2, min_observations, aligned, result>>

---------------------------------------------------------------------------
(* Bounds and program constants *)

MaxSyms == 3

\* the longest list of a scan that is followed for its progress lines
MaxProgSyms == 15

PGrid == 2

Slack == 2

MinObs == 30

\* the K of "if current_combination % K == 0" in pairs_finder.py
ProgressEvery == 10

\* the same in main.py
ProgressEveryMain == 50

T == MinObs + Slack

Timestamps == 1..T

Symbols == {"A", "B", "C"}

NaN == <<>>

Num(v) == <<v>>

IsNaN(c) == c = NaN

ThrVals == {0, 1, PGrid}

---------------------------------------------------------------------------
(* Generic helpers *)

\* the sum of f over the timestamps of its index that are at most k
RECURSIVE SumTo(_, _)
SumTo(f, k) ==
    IF k = 0 THEN 0
    ELSE (IF k \in DOMAIN f THEN f[k] ELSE 0) + SumTo(f, k - 1)

Sum(f) == SumTo(f, T)

SeqsUpTo(S, n) == UNION {[1..k -> S] : k \in 0..n}

---------------------------------------------------------------------------
(* The market: what ticker.history returns for a symbol, rows with a     *)
(* missing value included.                                                 *)

Price(s, t) ==
    CASE s = "A" -> 10 + (t % 5)
      [] s = "B" -> 20 + ((2 * t) % 7)
      [] OTHER   -> 15 + ((3 * t) % 4)

History(s) ==
    CASE s = "A" -> [t \in Timestamps |-> Num(Price(s, t))]
      [] s = "B" -> [t \in 1..MinObs |-> Num(Price(s, t))]
      [] OTHER   -> [t \in Timestamps |-> IF t < 3 THEN NaN ELSE Num(Price(s, t))]

---------------------------------------------------------------------------
(* DataManager *)

DropNaRows(frame) ==
    [t \in {u \in DOMAIN frame : ~IsNaN(frame[u])} |-> frame[t]]

\* fetch_stock_data, one symbol of the loop: what self.data is afterwards.
\* outcome is what yfinance did: "data", "empty" or "raise".
StoreSymbol(d, symbol, outcome) ==
    IF outcome = "data"
    THEN [s \in DOMAIN d \cup {symbol} |->
            IF s = symbol THEN DropNaRows(History(symbol)) ELSE d[s]]
    ELSE d

\* fetch_stock_data: the loop over the requested symbols req, yfinance
\* having data for those of good
RECURSIVE StoreAll(_, _, _)
StoreAll(d, req, good) ==
    IF req = {} THEN d
    ELSE LET symbol == CHOOSE s \in req : TRUE
         IN  StoreAll(StoreSymbol(d, symbol,
                                  IF symbol \in good THEN "data" ELSE "empty"),
                      req \ {symbol}, good)

\* what yfinance raises when the retrieval of a symbol fails
FetchError == "ConnectionError"

\* what the retrieval of one symbol can do
FetchOutcomes == {"data", "empty", "raise"}

NoFetch == [called |-> FALSE, symbols |-> {}, outcome |-> <<>>,
            raised |-> FALSE, returned |-> <<>>]

\* A variant of DataAfterRead: get_price_series as self.data.pop(symbol).
DataAfterRead_Consuming(d, symbol) == [s \in DOMAIN d \ {symbol} |-> d[s]]

\* self.data after get_price_series(symbol): the method only reads it
DataAfterRead(d, symbol) == d

get_price_series(d, symbol) ==
    IF symbol \in DOMAIN d
    THEN [raised |-> FALSE, err |-> "", val |-> d[symbol]]
    ELSE [raised |-> TRUE, err |-> "ValueError", val |-> <<>>]

---------------------------------------------------------------------------
(* The numerical libraries: a family of deterministic functions *)

NLib == 6 + (PGrid + 1) * (PGrid + 1)

\* Member n's answer: an exception in coint, in OLS, in adfuller or in the
\* spread statistics; a NaN p-value from coint or from adfuller; or two
\* p-values of the grid.  The regression coefficient is one of -1, 0, 1, 2.
LibOutcome(n) ==
    LET d == n - 6
    IN  [fail |-> CASE n = 0 -> "coint"
                    [] n = 1 -> "OLS"
                    [] n = 2 -> "adfuller"
                    [] n = 3 -> "stats"
                    [] OTHER -> "",
         coint_pvalue |-> IF n = 4 THEN NaN
                          ELSE IF n < 6 THEN Num(0)
                          ELSE Num(d % (PGrid + 1)),
         adf_pvalue   |-> IF n = 5 THEN NaN
                          ELSE IF n < 6 THEN Num(0)
                          ELSE Num(d \div (PGrid + 1)),
         hedge_ratio  |-> (n % 4) - 1]

\* what of the inputs selects the answer: the first observation of each
\* series and the number of observations
KeyOf(y, x) ==
    IF DOMAIN y = {} THEN 0
    ELSE LET t == CHOOSE u \in DOMAIN y : \A v \in DOMAIN y : u <= v
         IN  y[t] + 2 * x[t] + Cardinality(DOMAIN y)

Library(y, x) == LibOutcome((KeyOf(y, x) + lib) % NLib)

---------------------------------------------------------------------------
(* StatisticalAnalyzer *)

\* pd.concat([price1, price2], axis=1): outer join on the index.
Concat(p1, p2) ==
    [t \in DOMAIN p1 \cup DOMAIN p2 |->
        <<IF t \in DOMAIN p1 THEN p1[t] ELSE NaN,
          IF t \in DOMAIN p2 THEN p2[t] ELSE NaN>>]

\* A variant of DropNa: the first row is dropped as well.
DropNa_AlsoFirstRow(frame) ==
    [t \in {u \in DOMAIN frame : /\ ~IsNaN(frame[u][1])
                                 /\ ~IsNaN(frame[u][2])
                                 /\ \E v \in DOMAIN frame : v < u}
        |-> frame[t]]

\* .dropna(): the rows without a missing value.
DropNa(frame) ==
    [t \in {u \in DOMAIN frame : ~IsNaN(frame[u][1]) /\ ~IsNaN(frame[u][2])}
        |-> frame[t]]

\* aligned_data.iloc[:, k]
ILoc(frame, k) == [t \in DOMAIN frame |-> frame[t][k][1]]

FrameLen(frame) == Cardinality(DOMAIN frame)

\* the timestamps of S in ascending order
RECURSIVE SortedIndex(_)
SortedIndex(S) ==
    IF S = {} THEN <<>>
    ELSE LET m == CHOOSE u \in S : \A v \in S : u <= v
         IN  <<m>> \o SortedIndex(S \ {m})

\* the index of a price series, in row order: ticker.history gives the
\* rows in chronological order
Index(series) == SortedIndex(DOMAIN series)

\* the index of pd.concat([price1, price2], axis=1), in row order: that of
\* the series when they share it, else the sorted union of the two
ConcatIndex(p1, p2) ==
    IF DOMAIN p1 = DOMAIN p2 THEN Index(p1)
    ELSE SortedIndex(DOMAIN p1 \cup DOMAIN p2)

\* aligned_data row by row: .dropna() keeps the order of the rows it keeps
AlignedRows(p1, p2) ==
    LET frame == Concat(p1, p2)
        kept  == DOMAIN DropNa(frame)
        Keep(t) == t \in kept
        index == SelectSeq(ConcatIndex(p1, p2), Keep)
    IN  [index |-> index,
         y |-> [k \in 1..Len(index) |-> frame[index[k]][1][1]],
         x |-> [k \in 1..Len(index) |-> frame[index[k]][2][1]]]

NoAligned == [index |-> <<>>, y |-> <<>>, x |-> <<>>]

\* y - hedge_ratio * x
Spread(y, x, hedge_ratio) == [t \in DOMAIN y |-> y[t] - hedge_ratio * x[t]]

Sentinel == [coint_pvalue |-> Num(PGrid), hedge_ratio |-> 0, adf_pvalue |-> Num(PGrid)]

TcReturn(via, cp, h, ap, spread, n) ==
    [raised |-> FALSE, err |-> "", via |-> via, coint_pvalue |-> cp,
     hedge_ratio |-> h, adf_pvalue |-> ap, spread |-> spread, n |-> n]

TcRaise(err, n) ==
    [raised |-> TRUE, err |-> err, via |-> "error", coint_pvalue |-> NaN,
     hedge_ratio |-> 0, adf_pvalue |-> NaN, spread |-> <<>>, n |-> n]

\* A variant of test_cointegration that answers a failing test with the
\* sentinel (a try/except around the tests).
test_cointegration_Swallowing(p1, p2) ==
    LET aligned_data == DropNa(Concat(p1, p2))
        n == FrameLen(aligned_data)
        sentinel == TcReturn("sentinel", Sentinel.coint_pvalue,
                             Sentinel.hedge_ratio, Sentinel.adf_pvalue, <<>>, n)
    IN  IF n < MinObs
        THEN sentinel
        ELSE LET y == ILoc(aligned_data, 1)
                 x == ILoc(aligned_data, 2)
                 o == Library(y, x)
             IN  IF o.fail \in {"coint", "OLS", "adfuller"}
                 THEN sentinel
                 ELSE TcReturn("tests", o.coint_pvalue, o.hedge_ratio,
                               o.adf_pvalue, Spread(y, x, o.hedge_ratio), n)

\* spread is the residual handed to adfuller (history, not part of the
\* returned tuple); n is len(aligned_data).
test_cointegration(p1, p2) ==
    LET aligned_data == DropNa(Concat(p1, p2))
        n == FrameLen(aligned_data)
    IN  IF n < MinObs
        THEN TcReturn("sentinel", Sentinel.coint_pvalue, Sentinel.hedge_ratio,
                      Sentinel.adf_pvalue, <<>>, n)
        ELSE LET y == ILoc(aligned_data, 1)
                 x == ILoc(aligned_data, 2)
                 o == Library(y, x)
                 spread == Spread(y, x, o.hedge_ratio)
             IN  CASE o.fail = "coint"    -> TcRaise("LinAlgError", n)
                   [] o.fail = "OLS"      -> TcRaise("KeyError", n)
                   [] o.fail = "adfuller" -> TcRaise("ValueError", n)
                   [] OTHER -> TcReturn("tests", o.coint_pvalue, o.hedge_ratio,
                                        o.adf_pvalue, spread, n)

\* spread.mean(): NaN for an empty series, else sum / n as <<sum, n>>.
Mean(spread) ==
    LET n == Cardinality(DOMAIN spread)
    IN  IF n = 0 THEN NaN ELSE <<Sum(spread), n>>

\* spread.std(): the sample standard deviation (ddof = 1), NaN below two
\* observations, else the variance it is the root of, as a fraction.
Std(spread) ==
    LET n  == Cardinality(DOMAIN spread)
        s  == Sum(spread)
        sq == Sum([t \in DOMAIN spread |-> spread[t] * spread[t]])
    IN  IF n < 2 THEN NaN ELSE <<n * sq - s * s, n * (n - 1)>>

calculate_spread_stats(p1, p2, hedge_ratio) ==
    LET aligned_data == DropNa(Concat(p1, p2))
        y == ILoc(aligned_data, 1)
        x == ILoc(aligned_data, 2)
        spread == Spread(y, x, hedge_ratio)
    IN  IF Library(y, x).fail = "stats"
        THEN [raised |-> TRUE, err |-> "TypeError", mean |-> NaN, std |-> NaN,
              spread |-> <<>>]
        ELSE [raised |-> FALSE, err |-> "", mean |-> Mean(spread),
              std |-> Std(spread), spread |-> spread]

---------------------------------------------------------------------------
(* PairsFinder *)

NoFinder == [constructed |-> FALSE, cointegration_threshold |-> 0, adf_threshold |-> 0]

\* PairsFinder.__init__
PairsFinderInit(cointegration_threshold, adf_threshold) ==
    [constructed |-> TRUE, cointegration_threshold |-> cointegration_threshold,
     adf_threshold |-> adf_threshold]

\* A variant of Leq: the strict comparison p < threshold.
Leq_Strict(p, threshold) == ~IsNaN(p) /\ p[1] < threshold

\* Python's p <= threshold on floats: False when p is NaN.
Leq(p, threshold) == ~IsNaN(p) /\ p[1] <= threshold

MeetsCriteria(f, coint_pvalue, adf_pvalue) ==
    /\ Leq(coint_pvalue, f.cointegration_threshold)
    /\ Leq(adf_pvalue, f.adf_threshold)

TradingPair(symbol1, symbol2, hedge_ratio, coint_pvalue, adf_pvalue, mean, std) ==
    [symbol1 |-> symbol1, symbol2 |-> symbol2, hedge_ratio |-> hedge_ratio,
     cointegration_pvalue |-> coint_pvalue, adf_pvalue |-> adf_pvalue,
     spread_mean |-> mean, spread_std |-> std]

\* What a run of the try block leaves: the exception that left it, the
\* records it appended (none or one), and, as history, the results of the
\* analyzer calls it made (none or one each).
BodyRaise(err, tc, stats) ==
    [raised |-> TRUE, err |-> err, pairs |-> <<>>, tc |-> tc, stats |-> stats]

BodyEnd(pairs, tc, stats) ==
    [raised |-> FALSE, err |-> "", pairs |-> pairs, tc |-> tc, stats |-> stats]

\* The try block of find_pairs for one pair.
PairBody(d, f, symbol1, symbol2) ==
    LET g1 == get_price_series(d, symbol1)
        g2 == get_price_series(d, symbol2)
    IN  IF g1.raised THEN BodyRaise(g1.err, <<>>, <<>>)
        ELSE IF g2.raised THEN BodyRaise(g2.err, <<>>, <<>>)
        ELSE LET tc == test_cointegration(g1.val, g2.val)
             IN  IF tc.raised THEN BodyRaise(tc.err, <<tc>>, <<>>)
                 ELSE IF MeetsCriteria(f, tc.coint_pvalue, tc.adf_pvalue)
                 THEN LET st == calculate_spread_stats(g1.val, g2.val, tc.hedge_ratio)
                      IN  IF st.raised THEN BodyRaise(st.err, <<tc>>, <<st>>)
                          ELSE BodyEnd(<<TradingPair(symbol1, symbol2,
                                           tc.hedge_ratio, tc.coint_pvalue,
                                           tc.adf_pvalue, st.mean, st.std)>>,
                                       <<tc>>, <<st>>)
                 ELSE BodyEnd(<<>>, <<tc>>, <<>>)

\* how a run of the try block ended, for the history
BodyEndKind(out) ==
    IF out.raised THEN "failed"
    ELSE IF out.pairs = <<>> THEN "rejected" ELSE "accepted"

Exceptions == {"ValueError", "LinAlgError", "KeyError", "TypeError",
               "ConnectionError"}

\* A variant of Catches: except ValueError.
Catches_ValueErrorOnly(err) == err = "ValueError"

\* except Exception
Catches(err) == err \in Exceptions

\* len(symbols) * (len(symbols) - 1) // 2
TotalCombinations(n) == (n * (n - 1)) \div 2

\* for i in range(n): for j in range(i + 1, n): the loops hold a pair
HasPair(a, b, n) == a < n /\ b < n

\* A variant of Advance: the inner loop as range(i, n).
Advance_FromI(a, b, n) == IF b + 1 < n THEN <<a, b + 1>> ELSE <<a + 1, a + 1>>

\* the pair the loops yield after (a, b)
Advance(a, b, n) == IF b + 1 < n THEN <<a, b + 1>> ELSE <<a + 1, a + 2>>

\* A variant of AppendPairs: valid_pairs.insert(0, pair).
AppendPairs_AtFront(list, pairs) == pairs \o list

\* valid_pairs.append(pair)
AppendPairs(list, pairs) == list \o pairs

\* A variant of ShouldReport: the test made before the pair is counted.
ShouldReport_BeforeCount(c, k) == (c - 1) % k = 0

\* if current_combination % K == 0
ShouldReport(c, k) == c % k = 0

\* print(f"Progress: {current_combination}/{total_combinations}")
Report(lines, c, total, k) ==
    IF ShouldReport(c, k) THEN Append(lines, <<c, total>>) ELSE lines

---------------------------------------------------------------------------
(* The program *)

\* what find_pairs is given: the manager's data, the finder's thresholds
\* and the list of symbols
Snapshot(d, f, syms) == [data |-> d, finder |-> f, symbols |-> syms]

NoEntry == Snapshot(<<>>, NoFinder, <<>>)

NoResult == [called |-> FALSE, r |-> TcRaise("", 0)]

ScanReset ==
    /\ symbols = <<>>
    /\ i = 0
    /\ j = 0
    /\ total_combinations = 0
    /\ current_combination = 0
    /\ valid_pairs = <<>>
    /\ progress = <<>>
    /\ entry = NoEntry
    /\ previous = <<>>
    /\ trace = <<>>
    /\ last = <<>>

TcIdle ==
    /\ price1 = <<>>
    /\ price2 = <<>>
    /\ min_observations = MinObs
    /\ aligned = NoAligned
    /\ result = NoResult

Init ==
    /\ data = <<>>
    /\ fetched = NoFetch
    /\ finder = NoFinder
    /\ lib \in 0..(NLib - 1)
    /\ progress_every = ProgressEvery
    /\ pc = "idle"
    /\ ScanReset
    /\ TcIdle

\* data_manager.fetch_stock_data(req): for each requested symbol yfinance
\* answers with data, with an empty frame or with an exception, which the
\* except clause of the loop catches; the call returns self.data.
FetchStockData ==
    /\ pc = "idle"
    /\ \E req \in SUBSET Symbols :
          \E outcome \in [req -> FetchOutcomes] :
              \E d \in {StoreAll(data, req, {s \in req : outcome[s] = "data"})} :
                  /\ data' = d
                  /\ fetched' = [called |-> TRUE, symbols |-> req,
                                 outcome |-> outcome,
                                 raised |-> \E s \in req :
                                               /\ outcome[s] = "raise"
                                               /\ ~Catches(FetchError),
                                 returned |-> d]
    /\ pc' = "fetched"
    /\ UNCHANGED <<finder, lib, progress_every>>
    /\ UNCHANGED scanVars
    /\ UNCHANGED tcVars

\* PairsFinder(data_manager, cointegration_threshold, adf_threshold)
Construct ==
    /\ pc = "idle"
    /\ \E ct \in ThrVals, at \in ThrVals : finder' = PairsFinderInit(ct, at)
    /\ UNCHANGED <<data, fetched, lib, progress_every, pc>>
    /\ UNCHANGED scanVars
    /\ UNCHANGED tcVars

\* find_pairs(syms), up to the first iteration
FindPairsCall ==
    /\ pc = "idle"
    /\ finder.constructed
    /\ \E syms \in SeqsUpTo(Symbols, MaxSyms) :
          /\ symbols' = syms
          /\ total_combinations' = TotalCombinations(Len(syms))
          /\ entry' = Snapshot(data, finder, syms)
    /\ previous' = <<>>
    /\ valid_pairs' = <<>>
    /\ current_combination' = 0
    /\ i' = 0
    /\ j' = 1
    /\ progress' = <<>>
    /\ trace' = <<>>
    /\ last' = <<>>
    /\ pc' = "scan"
    /\ UNCHANGED <<data, fetched, finder, lib, progress_every>>
    /\ UNCHANGED tcVars

\* one iteration of the inner loop
EvaluatePair ==
    /\ pc = "scan"
    /\ HasPair(i, j, Len(symbols))
    /\ LET symbol1 == symbols[i + 1]
           symbol2 == symbols[j + 1]
           nxt == Advance(i, j, Len(symbols))
       IN  \E out \in {PairBody(data, finder, symbol1, symbol2)} :
           /\ current_combination' = current_combination + 1
           /\ progress' = Report(progress, current_combination + 1,
                                 total_combinations, progress_every)
           /\ trace' = Append(trace,
                  [i |-> i, j |-> j, symbol1 |-> symbol1, symbol2 |-> symbol2,
                   end |-> BodyEndKind(out), err |-> out.err,
                   before |-> Len(valid_pairs), pairs |-> out.pairs])
           /\ last' = <<out>>
           /\ data' = DataAfterRead(DataAfterRead(data, symbol1), symbol2)
           /\ IF out.raised /\ ~Catches(out.err)
              THEN /\ pc' = "raised"
                   /\ UNCHANGED <<valid_pairs, i, j>>
              ELSE /\ valid_pairs' = AppendPairs(valid_pairs, out.pairs)
                   /\ i' = nxt[1]
                   /\ j' = nxt[2]
                   /\ pc' = "scan"
    /\ UNCHANGED <<fetched, finder, lib, progress_every, symbols,
                   total_combinations, entry, previous>>
    /\ UNCHANGED tcVars

\* the loops are exhausted: return valid_pairs
FindPairsReturn ==
    /\ pc = "scan"
    /\ ~HasPair(i, j, Len(symbols))
    /\ pc' = "done"
    /\ last' = <<>>
    /\ UNCHANGED <<data, fetched, finder, lib, progress_every, symbols, i, j,
                   total_combinations, current_combination, valid_pairs,
                   progress, entry, previous, trace>>
    /\ UNCHANGED tcVars

\* the caller is done with the outcome of the call
Finish ==
    /\ pc \in {"done", "raised", "fetched"}
    /\ pc' = "idle"
    /\ fetched' = NoFetch
    /\ symbols' = <<>>
    /\ i' = 0
    /\ j' = 0
    /\ total_combinations' = 0
    /\ current_combination' = 0
    /\ valid_pairs' = <<>>
    /\ progress' = <<>>
    /\ entry' = NoEntry
    /\ previous' = <<>>
    /\ trace' = <<>>
    /\ last' = <<>>
    /\ UNCHANGED <<data, finder, lib, progress_every>>
    /\ UNCHANGED tcVars

\* StatisticalAnalyzer.test_cointegration(price1, price2), called directly:
\* the signature has no place for the caller's min_observations
CallTestCointegration ==
    /\ pc = "tc"
    /\ ~result.called
    /\ result' = [called |-> TRUE, r |-> test_cointegration(price1, price2)]
    /\ aligned' = AlignedRows(price1, price2)
    /\ UNCHANGED <<data, fetched, finder, lib, progress_every, pc, price1, price2,
                   min_observations>>
    /\ UNCHANGED scanVars

Next ==
    \/ FetchStockData
    \/ Construct
    \/ FindPairsCall
    \/ EvaluatePair
    \/ FindPairsReturn
    \/ Finish

Spec == Init /\ [][Next]_vars

---------------------------------------------------------------------------
(* test_cointegration alone, on series that may hold missing values *)

Holed == [t \in 1..(MinObs + 1) |-> IF t = 2 THEN NaN ELSE Num(Price("B", t))]

SeriesArgs ==
    {<<>>, Holed} \cup {History(s) : s \in Symbols}
                  \cup {DropNaRows(History(s)) : s \in Symbols}

MinObsArgs == (MinObs - 1)..T

InitTC ==
    /\ data = <<>>
    /\ fetched = NoFetch
    /\ finder = NoFinder
    /\ lib \in 0..(NLib - 1)
    /\ progress_every = ProgressEvery
    /\ pc = "tc"
    /\ ScanReset
    /\ price1 \in SeriesArgs
    /\ price2 \in SeriesArgs
    /\ min_observations \in MinObsArgs
    /\ aligned = NoAligned
    /\ result = NoResult

NextTC == CallTestCointegration

SpecTC == InitTC /\ [][NextTC]_vars

---------------------------------------------------------------------------
(* find_pairs alone, on lists long enough for its progress lines *)

SymbolAt(k) ==
    CASE k % 3 = 1 -> "A"
      [] k % 3 = 2 -> "B"
      [] OTHER     -> "C"

\* the list A, B, C, A, B, ... of n symbols
ProgressList(n) == [k \in 1..n |-> SymbolAt(k)]

\* find_pairs has just been called, by either implementation, on a manager
\* that was asked for all symbols and holds two of them or all three
InitProgress ==
    /\ data \in {StoreAll(<<>>, Symbols, good) : good \in {{"A", "B"}, Symbols}}
    /\ fetched = NoFetch
    /\ finder \in {PairsFinderInit(t, t) : t \in ThrVals}
    /\ lib \in 0..(NLib - 1)
    /\ progress_every \in {ProgressEvery, ProgressEveryMain}
    /\ pc = "scan"
    /\ symbols \in {ProgressList(n) : n \in 0..MaxProgSyms}
    /\ i = 0
    /\ j = 1
    /\ total_combinations = TotalCombinations(Len(symbols))
    /\ current_combination = 0
    /\ valid_pairs = <<>>
    /\ progress = <<>>
    /\ entry = Snapshot(data, finder, symbols)
    /\ previous = <<>>
    /\ trace = <<>>
    /\ last = <<>>
    /\ TcIdle

NextProgress ==
    \/ EvaluatePair
    \/ FindPairsReturn

SpecProgress == InitProgress /\ [][NextProgress]_vars

---------------------------------------------------------------------------
(* find_pairs called twice with the same inputs *)

\* find_pairs has just been called on a manager that was asked for all
\* symbols and holds two of them or all three
InitAgain ==
    /\ data \in {StoreAll(<<>>, Symbols, good) : good \in {{"A", "B"}, Symbols}}
    /\ fetched = NoFetch
    /\ finder \in {PairsFinderInit(t, t) : t \in ThrVals}
    /\ lib \in 0..(NLib - 1)
    /\ progress_every = ProgressEvery
    /\ pc = "scan"
    /\ symbols \in SeqsUpTo(Symbols, MaxSyms)
    /\ i = 0
    /\ j = 1
    /\ total_combinations = TotalCombinations(Len(symbols))
    /\ current_combination = 0
    /\ valid_pairs = <<>>
    /\ progress = <<>>
    /\ entry = Snapshot(data, finder, symbols)
    /\ previous = <<>>
    /\ trace = <<>>
    /\ last = <<>>
    /\ TcIdle

\* the caller keeps the list returned and calls find_pairs once more, on
\* the same finder and manager, with the list of symbols it passed before
FindPairsAgain ==
    /\ pc = "done"
    /\ previous = <<>>
    /\ previous' = <<valid_pairs>>
    /\ symbols' = entry.symbols
    /\ total_combinations' = TotalCombinations(Len(entry.symbols))
    /\ entry' = Snapshot(data, finder, entry.symbols)
    /\ valid_pairs' = <<>>
    /\ current_combination' = 0
    /\ i' = 0
    /\ j' = 1
    /\ progress' = <<>>
    /\ trace' = <<>>
    /\ last' = <<>>
    /\ pc' = "scan"
    /\ UNCHANGED <<data, fetched, finder, lib, progress_every>>
    /\ UNCHANGED tcVars

NextAgain ==
    \/ EvaluatePair
    \/ FindPairsReturn
    \/ FindPairsAgain

SpecAgain == InitAgain /\ [][NextAgain]_vars

---------------------------------------------------------------------------
(* Vocabulary of the properties *)

NSyms == Len(symbols)

InCall == pc \in {"scan", "done", "raised"}

\* the index pairs (a, b), a < b, of a list of n symbols, 0-based
IndexPairs(n) == {p \in (0..(n - 1)) \X (0..(n - 1)) : p[1] < p[2]}

\* (a, b) comes before (c, d) in the order of the nested loops
Before(a, b, c, d) == a < c \/ (a = c /\ b < d)

Visited == {<<trace[k].i, trace[k].j>> : k \in 1..Len(trace)}

AcceptedAt == {k \in 1..Len(trace) : trace[k].end = "accepted"}

FailedAt == {k \in 1..Len(trace) : trace[k].end = "failed"}

\* the number of records in valid_pairs when entry k + 1 of the history
\* began: its "before", or the length now when k is the last entry
RecordsAfter(k) ==
    IF k < Len(trace) THEN trace[k + 1].before ELSE Len(valid_pairs)

\* a threshold inside (0, 1]
Permitted(thr) == 0 < thr /\ thr <= PGrid

\* the unordered pair of a record
Unordered(rec) == {rec.symbol1, rec.symbol2}

\* the aligned observations of two series: the timestamps at which both
\* hold a price
AlignedCount(p1, p2) ==
    Cardinality({t \in DOMAIN p1 \cap DOMAIN p2 : p1[t] # NaN /\ p2[t] # NaN})

---------------------------------------------------------------------------
(* C1 *)

\* C1: per-pair failure isolation.  find_pairs never raises; a pair whose
\* evaluation raised (a symbol missing from the data manager, the
\* cointegration test or the spread statistics raising) leaves valid_pairs
\* as it was and emits no record; the loops go on to the next pair, so that
\* at the return every index pair has been visited; and the records are
\* exactly those of the pairs that were accepted, each the record that the
\* evaluation of its pair alone yields.
C1_FailureIsolation ==
    /\ pc # "raised"
    /\ \A k \in FailedAt :
          /\ trace[k].pairs = <<>>
          /\ RecordsAfter(k) = trace[k].before
    /\ \A k \in 1..Len(trace) :
          k \notin FailedAt => RecordsAfter(k) = trace[k].before + Len(trace[k].pairs)
    /\ pc = "done" => Visited = IndexPairs(NSyms)
    /\ Len(valid_pairs) = Cardinality(AcceptedAt)
    /\ pc = "done" =>
          \A k \in AcceptedAt :
              <<valid_pairs[trace[k].before + 1]>>
                  = PairBody(data, finder, trace[k].symbol1, trace[k].symbol2).pairs

\* C1 witness: a returned scan in which a pair failed on a symbol missing
\* from the data manager and a pair visited later was accepted.
C1_Witness ==
    /\ pc = "done"
    /\ \E k \in FailedAt :
          /\ trace[k].err = "ValueError"
          /\ trace[k].symbol1 \notin DOMAIN data
          /\ \E l \in AcceptedAt : k < l

\* C1, the other failures: a returned scan in which the cointegration test
\* raised for a pair, or the spread statistics did, and a pair visited
\* later was accepted.
C1_TestFailureReached ==
    /\ pc = "done"
    /\ \E k \in FailedAt : trace[k].err = "LinAlgError" /\ \E l \in AcceptedAt : k < l

C1_StatsFailureReached ==
    /\ pc = "done"
    /\ \E k \in FailedAt : trace[k].err = "TypeError" /\ \E l \in AcceptedAt : k < l

---------------------------------------------------------------------------
(* C2 *)

\* C2: find_pairs visits exactly the index pairs i < j of the input list, in
\* the order of the nested loops, each once; for n symbols the reported
\* total and the number of pairs visited are n * (n - 1) / 2 (0 for n < 2).
C2_AllPairsOnce ==
    InCall =>
        /\ \A k \in 1..Len(trace) :
              /\ <<trace[k].i, trace[k].j>> \in IndexPairs(NSyms)
              /\ trace[k].symbol1 = symbols[trace[k].i + 1]
              /\ trace[k].symbol2 = symbols[trace[k].j + 1]
        /\ \A k, l \in 1..Len(trace) :
              k < l => Before(trace[k].i, trace[k].j, trace[l].i, trace[l].j)
        /\ current_combination = Len(trace)
        /\ 2 * total_combinations = NSyms * (NSyms - 1)
        /\ total_combinations = Cardinality(IndexPairs(NSyms))
        /\ pc = "done" =>
              /\ Visited = IndexPairs(NSyms)
              /\ Len(trace) = total_combinations

\* C2 witness: a returned scan of three symbols, three pairs visited.
C2_Witness ==
    /\ pc = "done"
    /\ NSyms = 3
    /\ Len(trace) = 3
    /\ total_combinations = 3

\* C2 witness of the short lists is part of the same run: a list of fewer
\* than two symbols returns with a total of 0 and nothing visited.
C2_ShortListReached ==
    pc = "done" /\ NSyms < 2 /\ total_combinations = 0 /\ trace = <<>>

---------------------------------------------------------------------------
(* C3 *)

\* C3: the list returned by find_pairs holds no record with
\* symbol1 = symbol2 and no unordered pair {symbol1, symbol2} twice, for
\* every input list.
C3_NoSelfPairNoRepeat ==
    /\ \A k \in 1..Len(valid_pairs) :
          valid_pairs[k].symbol1 # valid_pairs[k].symbol2
    /\ \A k, l \in 1..Len(valid_pairs) :
          k # l => Unordered(valid_pairs[k]) # Unordered(valid_pairs[l])

\* C3, the case that needs no pair of a symbol with itself: thresholds
\* inside (0, 1), and a returned list with two records of distinct symbols
\* for the same unordered pair, as (A, B) and (B, A) of the list A, B, A.
C3_RepeatReached ==
    /\ pc = "done"
    /\ Permitted(finder.cointegration_threshold)
    /\ Permitted(finder.adf_threshold)
    /\ finder.cointegration_threshold < PGrid
    /\ finder.adf_threshold < PGrid
    /\ \E k, l \in 1..Len(valid_pairs) :
          /\ k # l
          /\ valid_pairs[k].symbol1 # valid_pairs[k].symbol2
          /\ Unordered(valid_pairs[k]) = Unordered(valid_pairs[l])

---------------------------------------------------------------------------
(* C4 *)

\* C4: the records are in the order their pairs were visited, each with
\* symbol1 = symbols[i] and symbol2 = symbols[j] of its pair; a record sits,
\* in every later state of the call, at the position it was appended at,
\* unchanged (never removed, moved or reordered by a statistic).
C4_EnumerationOrder ==
    InCall =>
        /\ Len(valid_pairs) = Cardinality(AcceptedAt)
        /\ \A k \in AcceptedAt :
              LET m == trace[k].before + 1
              IN  /\ m <= Len(valid_pairs)
                  /\ valid_pairs[m] = trace[k].pairs[1]
                  /\ valid_pairs[m].symbol1 = symbols[trace[k].i + 1]
                  /\ valid_pairs[m].symbol2 = symbols[trace[k].j + 1]
        /\ \A k, l \in AcceptedAt : k < l => trace[k].before < trace[l].before

\* C4 witness: a returned scan with two records of which the later one has
\* the smaller cointegration p-value (a ranking would swap them).
C4_Witness ==
    /\ pc = "done"
    /\ Len(valid_pairs) >= 2
    /\ valid_pairs[2].cointegration_pvalue[1] < valid_pairs[1].cointegration_pvalue[1]

---------------------------------------------------------------------------
(* C5 *)

\* the last pair visited was evaluated without an exception
LastEvaluated == last # <<>> /\ ~last[1].raised

\* the analyzer's answer for the last pair visited
LastTc == last[1].tc[1]

\* p <= threshold, both numbers
AtMost(p, threshold) == p # NaN /\ \E v \in 0..threshold : p = Num(v)

\* the last pair visited put a record into valid_pairs
LastEmitted == Len(valid_pairs) = trace[Len(trace)].before + 1

\* C5: a pair evaluated without an exception is emitted if and only if
\* cointegration_pvalue <= cointegration threshold and adf_pvalue <= ADF
\* threshold, a p-value equal to its threshold included; a pair failing
\* either comparison leaves valid_pairs as it was; the record carries the
\* hedge ratio and the two p-values that were compared.
C5_InclusiveThresholds ==
    LastEvaluated =>
        /\ LastEmitted <=>
              /\ AtMost(LastTc.coint_pvalue, finder.cointegration_threshold)
              /\ AtMost(LastTc.adf_pvalue, finder.adf_threshold)
        /\ ~LastEmitted => Len(valid_pairs) = trace[Len(trace)].before
        /\ LastEmitted =>
              LET rec == valid_pairs[Len(valid_pairs)]
              IN  /\ rec.hedge_ratio = LastTc.hedge_ratio
                  /\ rec.cointegration_pvalue = LastTc.coint_pvalue
                  /\ rec.adf_pvalue = LastTc.adf_pvalue

\* C5 witness: a pair emitted with both p-values exactly at thresholds of
\* (0, 1) that are below 1.0, the tests having run.
C5_Witness ==
    /\ LastEvaluated
    /\ LastEmitted
    /\ LastTc.via = "tests"
    /\ Permitted(finder.cointegration_threshold)
    /\ finder.cointegration_threshold < PGrid
    /\ finder.adf_threshold < PGrid
    /\ Permitted(finder.adf_threshold)
    /\ LastTc.coint_pvalue = Num(finder.cointegration_threshold)
    /\ LastTc.adf_pvalue = Num(finder.adf_threshold)

\* C5, the other side: a pair evaluated without an exception and rejected
\* for a p-value one grid step above its threshold.
C5_RejectedReached ==
    /\ LastEvaluated
    /\ ~LastEmitted
    /\ LastTc.via = "tests"
    /\ LastTc.coint_pvalue = Num(finder.cointegration_threshold + 1)

---------------------------------------------------------------------------
(* C6 *)

\* C6: with fewer aligned observations than the caller's min_observations
\* the cointegration tester returns exactly (1.0, 0.0, 1.0), running no
\* test and raising nothing; with at least min_observations it does not
\* take the sentinel branch.
C6_CallerMinObservations ==
    result.called =>
        LET n == AlignedCount(price1, price2)
            r == result.r
        IN  /\ n < min_observations =>
                  /\ ~r.raised
                  /\ r.via = "sentinel"
                  /\ r.coint_pvalue = Num(PGrid)
                  /\ r.hedge_ratio = 0
                  /\ r.adf_pvalue = Num(PGrid)
            /\ n >= min_observations => r.via # "sentinel"

---------------------------------------------------------------------------
(* C7 *)

\* C7: a pair for which the tester returned the insufficient-data sentinel
\* is not emitted, whatever thresholds of (0, 1] the finder holds.
C7_SentinelNeverEmitted ==
    ( /\ LastEvaluated
      /\ LastTc.via = "sentinel"
      /\ Permitted(finder.cointegration_threshold)
      /\ Permitted(finder.adf_threshold) )
    => ~LastEmitted

---------------------------------------------------------------------------
(* C8 *)

\* C8: for every emitted record, spread_mean and spread_std are the mean
\* and the standard deviation of the residual that adfuller was given to
\* obtain the record's adf_pvalue: the same observations, the same hedge
\* ratio.
C8_SameResidual ==
    (LastEvaluated /\ LastEmitted) =>
        LET rec == valid_pairs[Len(valid_pairs)]
            st  == last[1].stats[1]
        IN  /\ LastTc.via = "tests"
            /\ st.spread = LastTc.spread
            /\ rec.spread_mean = Mean(LastTc.spread)
            /\ rec.spread_std = Std(LastTc.spread)

\* C8 for the records whose adf_pvalue adfuller did compute: there the
\* statistics are those of the residual adfuller was given.
C8_TestedRecords ==
    (LastEvaluated /\ LastEmitted /\ LastTc.via = "tests") =>
        LET rec == valid_pairs[Len(valid_pairs)]
            st  == last[1].stats[1]
        IN  /\ st.spread = LastTc.spread
            /\ DOMAIN st.spread = DOMAIN data[rec.symbol1] \cap DOMAIN data[rec.symbol2]
            /\ \A t \in DOMAIN st.spread :
                  st.spread[t] = data[rec.symbol1][t][1]
                                   - rec.hedge_ratio * data[rec.symbol2][t][1]
            /\ rec.spread_mean = Mean(LastTc.spread)
            /\ rec.spread_std = Std(LastTc.spread)

---------------------------------------------------------------------------
(* C9 *)

\* C9: with a threshold outside (0, 1] no pair is ever evaluated: the
\* construction of the finder, or the call of find_pairs, fails first.
C9_MalformedThresholdsRejected ==
    ( /\ finder.constructed
      /\ ~(Permitted(finder.cointegration_threshold) /\ Permitted(finder.adf_threshold)) )
    => trace = <<>>

---------------------------------------------------------------------------
(* C10 *)

\* what the libraries answer for the aligned observations of the arguments
ArgsOutcome ==
    LET both == {t \in DOMAIN price1 \cap DOMAIN price2 :
                    price1[t] # NaN /\ price2[t] # NaN}
    IN  Library([t \in both |-> price1[t][1]], [t \in both |-> price2[t][1]])

\* C10: when coint, the regression or adfuller fails, test_cointegration
\* ends with that exception, not with a value; the sentinel branch is taken
\* only with fewer than MinObs aligned observations.
C10_FailureSurfaced ==
    result.called =>
        LET n == AlignedCount(price1, price2)
            r == result.r
        IN  /\ r.via = "sentinel" => n < MinObs
            /\ (n >= MinObs /\ ArgsOutcome.fail \in {"coint", "OLS", "adfuller"})
                  => (r.raised /\ r.via = "error")
            /\ r.raised => n >= MinObs

\* C10 witness: a call with enough observations in which adfuller failed
\* and the call ended with the exception.
C10_Witness ==
    /\ result.called
    /\ AlignedCount(price1, price2) >= MinObs
    /\ ArgsOutcome.fail = "adfuller"
    /\ result.r.raised

---------------------------------------------------------------------------
(* C11 *)

\* C11: the mapping returned by a fetch_stock_data call, whatever calls
\* came before it, has no entry for a requested symbol whose retrieval in
\* this call gave an empty frame or raised; the call does not raise; and a
\* symbol retrieved in this call is in the mapping with its cleaned data.
C11_FailedSymbolsAbsent ==
    fetched.called =>
        /\ ~fetched.raised
        /\ \A s \in fetched.symbols :
              /\ fetched.outcome[s] # "data" => s \notin DOMAIN fetched.returned
              /\ fetched.outcome[s] = "data" =>
                    /\ s \in DOMAIN fetched.returned
                    /\ fetched.returned[s] = DropNaRows(History(s))

\* C11, what does hold of every call: it does not raise, the mapping it
\* returns is self.data, and a symbol retrieved in this call is in it with
\* its cleaned data.
C11_RetrievedPresent ==
    fetched.called =>
        /\ ~fetched.raised
        /\ fetched.returned = data
        /\ \A s \in fetched.symbols :
              fetched.outcome[s] = "data" =>
                  /\ s \in DOMAIN fetched.returned
                  /\ fetched.returned[s] = DropNaRows(History(s))

\* C11, the failing case: a call in which the retrieval of a requested
\* symbol raised, and whose mapping holds the symbol from an earlier call.
C11_StaleEntryReached ==
    /\ fetched.called
    /\ \E s \in fetched.symbols :
          /\ fetched.outcome[s] = "raise"
          /\ s \in DOMAIN fetched.returned

---------------------------------------------------------------------------
(* C12 *)

\* the records of the pairs visited so far, each evaluated alone, in the
\* order of the visits: nothing of the progress lines enters it
RECURSIVE RecordsOf(_)
RecordsOf(k) ==
    IF k = 0 THEN <<>>
    ELSE RecordsOf(k - 1)
            \o PairBody(data, finder, trace[k].symbol1, trace[k].symbol2).pairs

\* C12: during a scan a progress line is printed exactly at every K-th
\* pair (K = 10 in pairs_finder.py, 50 in main.py), as (processed, total):
\* the r-th line is (r * K, n * (n - 1) / 2); processed is strictly
\* increasing from line to line, counts every pair visited, those rejected
\* or failed included, and never exceeds the total; and the records
\* returned are those of the pairs alone, whatever was printed (there is no
\* callback to pass: every call runs without one).
C12_ProgressEveryK ==
    InCall =>
        /\ progress_every \in {ProgressEvery, ProgressEveryMain}
        /\ current_combination = Len(trace)
        /\ Len(progress) = current_combination \div progress_every
        /\ \A r \in 1..Len(progress) :
              /\ progress[r] = <<r * progress_every, total_combinations>>
              /\ progress[r][1] <= progress[r][2]
              /\ progress[r][1] <= Len(trace)
        /\ \A r, q \in 1..Len(progress) : r < q => progress[r][1] < progress[q][1]
        /\ 2 * total_combinations = NSyms * (NSyms - 1)
        /\ current_combination <= total_combinations
        /\ pc = "done" => valid_pairs = RecordsOf(Len(trace))

\* C12 witness: a returned scan of pairs_finder.py with two progress lines
\* or more, in which, among the first K pairs, one failed, one was
\* rejected and one was accepted.
C12_Witness ==
    /\ pc = "done"
    /\ progress_every = ProgressEvery
    /\ Len(progress) >= 2
    /\ \E k \in 1..ProgressEvery : trace[k].end = "failed"
    /\ \E k \in 1..ProgressEvery : trace[k].end = "rejected"
    /\ \E k \in 1..ProgressEvery : trace[k].end = "accepted"

\* C12, main.py: a returned scan with two progress lines of K = 50.
C12_MainReached ==
    /\ pc = "done"
    /\ progress_every = ProgressEveryMain
    /\ Len(progress) >= 2
    /\ progress[2] = <<2 * ProgressEveryMain, total_combinations>>
    /\ FailedAt # {}

---------------------------------------------------------------------------
(* C13 *)

\* C13: at every point of a find_pairs call the data manager's stored
\* data, the finder's thresholds and the list of symbols are what they were
\* when the call began, whether the pairs visited were accepted, rejected
\* or failed; and a call repeated with the same inputs returns the list
\* that the call before returned.
C13_ReadOnly ==
    InCall =>
        /\ entry = Snapshot(data, finder, symbols)
        /\ (pc = "done" /\ previous # <<>>) => valid_pairs = previous[1]

\* C13 witness: a repeated call has returned, a non-empty list, with a
\* failed pair and an accepted one among those it visited.
C13_Witness ==
    /\ pc = "done"
    /\ previous # <<>>
    /\ valid_pairs # <<>>
    /\ FailedAt # {}
    /\ AcceptedAt # {}
    /\ entry.data # <<>>

\* C13, the third way a pair ends: a repeated call has returned with a
\* rejected pair and an accepted one among those it visited.
C13_RejectedReached ==
    /\ pc = "done"
    /\ previous # <<>>
    /\ AcceptedAt # {}
    /\ \E k \in 1..Len(trace) : trace[k].end = "rejected"

---------------------------------------------------------------------------
(* C14 *)

\* the timestamps at which both arguments hold a price
Shared ==
    {t \in DOMAIN price1 \cap DOMAIN price2 : price1[t] # NaN /\ price2[t] # NaN}

\* the rows of a series, missing values included
Rows(series) == Cardinality(DOMAIN series)

\* C14: the alignment of two price series is two sequences of one length
\* over exactly the timestamps at which both series hold a price, in
\* chronological order, each timestamp once, with the two prices of that
\* timestamp: a timestamp missing from either series is not in it, a
\* timestamp with a price in both is; its length is at most the length of
\* the shorter series; and on a short or empty alignment the tester returns
\* without an exception, and the spread statistics are taken over the same
\* timestamps.
C14_Alignment ==
    result.called =>
        LET n == Len(aligned.index)
        IN  /\ Len(aligned.y) = n
            /\ Len(aligned.x) = n
            /\ {aligned.index[k] : k \in 1..n} = Shared
            /\ \A k, l \in 1..n : k < l => aligned.index[k] < aligned.index[l]
            /\ \A k \in 1..n :
                  /\ Num(aligned.y[k]) = price1[aligned.index[k]]
                  /\ Num(aligned.x[k]) = price2[aligned.index[k]]
            /\ n <= Rows(price1)
            /\ n <= Rows(price2)
            /\ result.r.n = n
            /\ n < MinObs => ~result.r.raised
            /\ result.r.via = "tests" => DOMAIN result.r.spread = Shared
            /\ DOMAIN DropNa(Concat(price1, price2)) = Shared

\* C14 witness: a call on two series that both hold a missing value and
\* differ in their timestamps; some timestamps are dropped, some are kept,
\* and the alignment is too short for the tests.
C14_Witness ==
    /\ result.called
    /\ \E t \in DOMAIN price1 : price1[t] = NaN
    /\ \E t \in DOMAIN price2 : price2[t] = NaN /\ price1[t] # NaN
    /\ DOMAIN price1 # DOMAIN price2
    /\ 0 < Len(aligned.index)
    /\ Len(aligned.index) < Rows(price1)
    /\ Len(aligned.index) < Rows(price2)
    /\ Len(aligned.index) < MinObs

\* C14, the empty alignment: a call with an empty series returns.
C14_EmptyReached ==
    /\ result.called
    /\ price1 # <<>>
    /\ aligned.index = <<>>
    /\ ~result.r.raised

\* C14, the long alignment: a call in which the tests ran on the aligned
\* observations of series with missing values.
C14_TestedReached ==
    /\ result.called
    /\ \E t \in DOMAIN price1 : price1[t] = NaN
    /\ result.r.via = "tests"
    /\ Len(aligned.index) >= MinObs

====
